---- MODULE Spec2Model ----
(***************************************************************************)
(* Model of the text-splitting engine: the measurement / hierarchy / line  *)
(* pipeline of splitText (as one function and statement by statement),    *)
(* its revert/dispose handle, the resize-driven autoSplit lifecycle        *)
(* controller, and the React wrapper component with its effects, its       *)
(* callbacks and the promises they return.                                 *)
(***************************************************************************)
EXTENDS Integers, Sequences, FiniteSets, TLC

\* ------------------------------------------------------------------------
\* Bounds of the model
\* ------------------------------------------------------------------------
\* longest text of the target, in characters
MaxTextLen == 3
\* parent widths range over CharPx * (1 .. MaxCols)
MaxCols == 3
\* most resize notifications delivered in one behaviour
MaxNotifs == 4
\* most calls of revert() / of dispose() in one behaviour
MaxCalls == 2
\* clock granularity: time advances in steps of TickMs
TickMs == 100
\* most setups of the wrapper's initial-split effect in one behaviour
MaxSetups == 3
\* most notifications of the wrapper's intersection observer in one behaviour
MaxIntersections == 3
\* most words of a text whose word spans the host places freely
MaxWords == 3
\* most members of an array a callback of the wrapper returns
MaxMembers == 3

\* ------------------------------------------------------------------------
\* Program constants
\* ------------------------------------------------------------------------
\* debounce interval of the resize handler
DebounceMs == 200
\* line detection tolerance on the rounded top coordinate
LineTolerance == 5
\* advance of one character cell and height of one line box of the host
\* rendering surface
CharPx == 10
LineHeightPx == 20
\* largest kerning adjustment the compensation applies (exclusive)
KerningLimit == 20
\* what a character span's inline box adds to the gap its character had in
\* the running text of the host rendering surface
SpanDriftPx == 2

\* ------------------------------------------------------------------------
\* Text and markup
\* ------------------------------------------------------------------------
\* "em" and "en" stand for the em-dash and the en-dash
BREAK_CHARS == {"em", "en"}
WhitespaceChars == {" ", "nl", "tab"}
Alphabet == {"a", " ", "em"}
Tiers == {"chars", "words", "lines"}
\* the split configurations: the non-empty subsets of the tiers
Types == (SUBSET Tiers) \ {{}}
\* the flags parsed from the type option
splitChars(type) == "chars" \in type
\* variant: the words collection is returned whatever the type
splitWords_Always(type) == TRUE
splitWords(type) == "words" \in type
splitLines(type) == "lines" \in type

Texts == UNION {[1..n -> Alphabet] : n \in 0..MaxTextLen}
\* a text-bearing node of the target's subtree: a bare text node ("text"),
\* or a text node inside an inline element ("b")
TextNode(tag, text) == [tag |-> tag, text |-> text]
\* the markup whose first cut characters sit in an inline element and whose
\* other characters follow as a bare text node
MakeDoc(text, cut) ==
  (IF cut > 0 THEN <<TextNode("b", SubSeq(text, 1, cut))>> ELSE <<>>)
  \o (IF cut < Len(text) THEN <<TextNode("text", SubSeq(text, cut + 1, Len(text)))>>
                          ELSE <<>>)
Docs == UNION {{MakeDoc(t, c) : c \in 0..Len(t)} : t \in Texts}

RECURSIVE Concat(_)
Concat(ss) == IF ss = <<>> THEN <<>> ELSE Head(ss) \o Concat(Tail(ss))

Max2(a, b) == IF a >= b THEN a ELSE b
Min2(a, b) == IF a <= b THEN a ELSE b
Abs(x) == IF x < 0 THEN -x ELSE x

\* element.innerHTML of the untouched target
RawHtml(nodes) == [kind |-> "raw", nodes |-> nodes, wrapLines |-> FALSE, rows |-> <<>>]

\* ------------------------------------------------------------------------
\* measureOriginalText
\* ------------------------------------------------------------------------
MeasureInit == [words |-> <<>>, currentWord |-> <<>>, noSpaceBeforeNext |-> FALSE]

pushWord(st) ==
  IF Len(st.currentWord) > 0
    THEN [words |-> Append(st.words, [chars |-> st.currentWord,
                                       noSpaceBefore |-> st.noSpaceBeforeNext]),
          currentWord |-> <<>>,
          noSpaceBeforeNext |-> FALSE]
    ELSE st

\* variant: a break character ends the word without joining it
MeasureChar_DropBreak(st, char) ==
  IF char \in WhitespaceChars
    THEN pushWord(st)
    ELSE IF char \in BREAK_CHARS
      THEN [pushWord(st) EXCEPT !.noSpaceBeforeNext = TRUE]
      ELSE [st EXCEPT !.currentWord = Append(@, char)]
\* one iteration of the inner loop over the characters of a text node
MeasureChar(st, char) ==
  IF char \in WhitespaceChars
    THEN pushWord(st)
    ELSE LET pushed == [st EXCEPT !.currentWord = Append(@, char)]
         IN IF char \in BREAK_CHARS
              THEN [pushWord(pushed) EXCEPT !.noSpaceBeforeNext = TRUE]
              ELSE pushed

RECURSIVE MeasureText(_, _)
MeasureText(st, text) ==
  IF text = <<>> THEN st ELSE MeasureText(MeasureChar(st, Head(text)), Tail(text))

RECURSIVE MeasureNodes(_, _)
MeasureNodes(st, texts) ==
  IF texts = <<>> THEN st ELSE MeasureNodes(MeasureText(st, Head(texts)), Tail(texts))

\* texts: the text nodes of the target in document order
measureOriginalText(texts) == pushWord(MeasureNodes(MeasureInit, texts)).words

\* ------------------------------------------------------------------------
\* Host rendering surface: where the word boxes land for a parent width
\* ------------------------------------------------------------------------
WordPx(w) == Len(w.chars) * CharPx

\* greedy placement of the word boxes on lines of the given width; the
\* result is the top coordinate of every word
RECURSIVE LayoutFrom(_, _, _, _, _)
LayoutFrom(words, i, x, line, width) ==
  IF i > Len(words) THEN <<>>
  ELSE LET w == words[i]
           sep == IF i = 1 \/ w.noSpaceBefore THEN 0 ELSE CharPx
           fits == x = 0 \/ x + sep + WordPx(w) <= width
           ln == IF fits THEN line ELSE line + 1
           nx == IF fits THEN x + sep + WordPx(w) ELSE WordPx(w)
       IN <<ln * LineHeightPx>> \o LayoutFrom(words, i + 1, nx, ln, width)

LayoutTops(words, width) == LayoutFrom(words, 1, 0, 0, width)

\* ------------------------------------------------------------------------
\* splitText steps 3, 5 and 6
\* ------------------------------------------------------------------------
\* line detection by Y position: groups of word indices; the reference top
\* of a line is the top of its first word
\* variant: the reference top follows the last word placed into the line
RECURSIVE DetectFrom_PreviousWord(_, _, _, _, _)
DetectFrom_PreviousWord(tops, i, groups, currentLine, currentY) ==
  IF i > Len(tops)
    THEN IF Len(currentLine) > 0 THEN Append(groups, currentLine) ELSE groups
    ELSE IF currentLine = <<>>
      THEN DetectFrom_PreviousWord(tops, i + 1, groups, <<i>>, tops[i])
      ELSE IF Abs(tops[i] - currentY) < LineTolerance
        THEN DetectFrom_PreviousWord(tops, i + 1, groups, Append(currentLine, i), tops[i])
        ELSE DetectFrom_PreviousWord(tops, i + 1, Append(groups, currentLine), <<i>>, tops[i])
RECURSIVE DetectFrom(_, _, _, _, _)
DetectFrom(tops, i, groups, currentLine, currentY) ==
  IF i > Len(tops)
    THEN IF Len(currentLine) > 0 THEN Append(groups, currentLine) ELSE groups
    ELSE IF currentLine = <<>>
      THEN DetectFrom(tops, i + 1, groups, <<i>>, tops[i])
      ELSE IF Abs(tops[i] - currentY) < LineTolerance
        THEN DetectFrom(tops, i + 1, groups, Append(currentLine, i), currentY)
        ELSE DetectFrom(tops, i + 1, Append(groups, currentLine), <<i>>, tops[i])

DetectLines(tops) == DetectFrom(tops, 1, <<>>, <<>>, 0)

\* Math.round of a coordinate given in tenths of a pixel, in pixels (a half
\* goes up)
RoundTop(top) == (top + 5) \div 10
\* wordY of every word span, from the rect.top the host reports for it
RoundedTops(tops) == [i \in 1..Len(tops) |-> RoundTop(tops[i])]

\* a word wrapper with its characters, as character spans or as plain text
WordItem(w, charSpans) ==
  [k |-> "word", chars |-> w.chars, charSpans |-> charSpans]
SpaceItem == [k |-> "space", chars |-> <<" ">>, charSpans |-> FALSE]

\* variant: a literal space after every word but the last
RECURSIVE Interleave_AlwaysSpace(_, _, _, _)
Interleave_AlwaysSpace(words, idxs, j, charSpans) ==
  IF j > Len(idxs) THEN <<>>
  ELSE <<WordItem(words[idxs[j]], charSpans)>>
       \o (IF j < Len(idxs) THEN <<SpaceItem>> ELSE <<>>)
       \o Interleave_AlwaysSpace(words, idxs, j + 1, charSpans)
\* the words of one container, a literal space after each word unless the
\* next word is a dash continuation
RECURSIVE Interleave(_, _, _, _)
Interleave(words, idxs, j, charSpans) ==
  IF j > Len(idxs) THEN <<>>
  ELSE <<WordItem(words[idxs[j]], charSpans)>>
       \o (IF j < Len(idxs) /\ ~words[idxs[j + 1]].noSpaceBefore
             THEN <<SpaceItem>> ELSE <<>>)
       \o Interleave(words, idxs, j + 1, charSpans)

AllIdx(words) == [i \in 1..Len(words) |-> i]

\* the target's markup after a pipeline run
BuildHtml(words, groups, type) ==
  [kind |-> "split",
   nodes |-> <<>>,
   wrapLines |-> splitLines(type),
   rows |-> IF splitLines(type)
              THEN [g \in 1..Len(groups) |->
                      Interleave(words, groups[g], 1, splitChars(type))]
              ELSE <<Interleave(words, AllIdx(words), 1, splitChars(type))>>]

\* the collections handed to the caller
Collections(words, groups, type) ==
  [chars |-> IF splitChars(type)
               THEN Concat([i \in 1..Len(words) |-> words[i].chars]) ELSE <<>>,
   words |-> IF splitWords(type)
               THEN [i \in 1..Len(words) |-> words[i].chars] ELSE <<>>,
   lines |-> IF splitLines(type) THEN groups ELSE <<>>]

EmptyCollections == [chars |-> <<>>, words |-> <<>>, lines |-> <<>>]

\* element.textContent of the current markup
TextContent(h) ==
  IF h.kind = "raw"
    THEN Concat([i \in 1..Len(h.nodes) |-> h.nodes[i].text])
    ELSE Concat([r \in 1..Len(h.rows) |->
                   Concat([j \in 1..Len(h.rows[r]) |-> h.rows[r][j].chars])])

\* the text nodes a TreeWalker finds in the current markup
TextNodesOf(h) ==
  IF h.kind = "raw"
    THEN [i \in 1..Len(h.nodes) |-> h.nodes[i].text]
    ELSE Concat([r \in 1..Len(h.rows) |->
                   [j \in 1..Len(h.rows[r]) |-> h.rows[r][j].chars]])

\* variant: no trim(), only the empty text counts
IsBlank_NoTrim(text) == text = <<>>
\* String.prototype.trim() leaves nothing
IsBlank(text) == \A i \in 1..Len(text) : text[i] \in WhitespaceChars

\* one pipeline run over the current markup at the given parent width
PipelineWords(h) == measureOriginalText(TextNodesOf(h))
PipelineGroups(h, width) == DetectLines(LayoutTops(PipelineWords(h), width))
PipelineHtml(h, width, type) ==
  BuildHtml(PipelineWords(h), PipelineGroups(h, width), type)
PipelineCollections(h, width, type) ==
  Collections(PipelineWords(h), PipelineGroups(h, width), type)

\* ------------------------------------------------------------------------
\* Host observer (the ResizeObserver of the test setup)
\* ------------------------------------------------------------------------
\* variant: observe() that registers nothing
observe_Nothing(elements, element) == elements
observe(elements, element) == elements \cup {element}
\* variant: disconnect() that keeps the observed elements
disconnect_Keep(elements) == elements
disconnect(elements) == {}

\* the element whose size changes drive autoSplit
ObservationTarget == "parent"

\* ------------------------------------------------------------------------
\* Handle and callbacks
\* ------------------------------------------------------------------------
\* revert(): what the handle's revert writes to element.innerHTML
\* variant: revert() that restores the text only, as one text node
revert_TextOnly(snapshot) == RawHtml(<<TextNode("text", TextContent(snapshot))>>)
revert(snapshot) == snapshot

\* the handle returned for a target without visible text
InertHandle == [chars |-> <<>>, words |-> <<>>, lines |-> <<>>, revert |-> "noop"]

CoreHandle(c) == [chars |-> c.chars, words |-> c.words, lines |-> c.lines, revert |-> "core"]

\* variant: the closure stores a handle whose revert does nothing
WrapperOnResize_NoRevert(result, resizeResult) ==
  [chars |-> resizeResult.chars, words |-> resizeResult.words,
   lines |-> resizeResult.lines, revert |-> "noop"]
\* the wrapper's onResize closure: new collections, same revert
WrapperOnResize(result, resizeResult) ==
  [chars |-> resizeResult.chars, words |-> resizeResult.words,
   lines |-> resizeResult.lines, revert |-> result.revert]

\* the callbacks the wrapper invokes after the initial split, and after a
\* resize-triggered re-split
InvokeOnSplit(c) == [c EXCEPT !.onSplit = @ + 1]
\* variants: the closure calls onResize twice; the closure calls onSplit too
InvokeOnResize_Twice(c) == [c EXCEPT !.onResize = @ + 2]
InvokeOnResize_AlsoOnSplit(c) == [c EXCEPT !.onResize = @ + 1, !.onSplit = @ + 1]
InvokeOnResize(c) == [c EXCEPT !.onResize = @ + 1]

\* ------------------------------------------------------------------------
\* Validation and diagnostics at the entry of splitText
\* ------------------------------------------------------------------------
\* variant: no validation of the target
IsHTMLElement_Any(isEl) == TRUE
\* element instanceof HTMLElement
IsHTMLElement(isEl) == isEl

\* variant: no diagnostic for a missing parent
WarnMissingParent_Silent(auto, parent) == {}
\* the diagnostic of autoSplit on a target without parent element
WarnMissingParent(auto, parent) ==
  IF auto /\ ~parent THEN {"autoSplit requires a parent element"} ELSE {}

\* variant: a split that leaves the ligatures alone
disableLigatures_Never(type, current) == current
\* font-variant-ligatures of the target after a split of the given type
disableLigatures(type, current) == IF splitChars(type) THEN "none" ELSE current

\* ------------------------------------------------------------------------
\* State
\* ------------------------------------------------------------------------
VARIABLES
  doc,            \* the target's markup before splitText (input)
  type,           \* split configuration (input)
  autoSplit,      \* option (input)
  isElement,      \* the target is an HTMLElement (input)
  hasParent,      \* element.parentElement is not null (input)
  width,          \* current width of the parent
  attached,       \* element.isConnected
  html,           \* element.innerHTML
  ariaLabel,      \* the aria-label attribute: <<>> when absent, <<text>> when set
  fontVariantLigatures, \* the target's font-variant-ligatures: "normal" or "none"
  warnings,       \* console.warn messages emitted
  pc,             \* "idle", "threw", "inert" or "split"
  originalHTML,   \* snapshot taken by splitText
  handle,         \* the handle the caller holds (collections and revert)
  isDisposed,
  observed,       \* elements of the resize observer
  skipFirst,      \* the baseline notification is still to come
  lastWidth,      \* last observed width
  debounceTimer,  \* [pending, remaining]
  rafPending,     \* a re-split is scheduled for the next rendering opportunity
  calls,          \* [onSplit, onResize]: invocations of the callbacks
  hist,           \* history of the behaviour, read by the properties only
  wrapper,        \* state of the React wrapper component
  pipe            \* position and intermediate results of a stepwise pipeline run

vars == <<doc, type, autoSplit, isElement, hasParent, width, attached, html,
          ariaLabel, fontVariantLigatures, warnings, pc, originalHTML, handle,
          isDisposed, observed, skipFirst, lastWidth, debounceTimer, rafPending,
          calls, hist, wrapper, pipe>>

inputs == <<doc, type, autoSplit, isElement, hasParent>>

Widths == {CharPx * k : k \in 1..MaxCols}

\* what a callback of the wrapper may return: nothing, an animation (an
\* object with a finished promise), an array of animations, a promise, or
\* any other value
CallbackReturns == {"void", "animation", "animations", "promise", "other"}
\* the inView prop: absent, true, or {once: true}
InViewOptions == {"off", "on", "once"}
\* how a promise settles
Outcomes == {"fulfilled", "rejected"}

\* the wrapper component before its first effect
WrapperInit ==
  [revertOnComplete |-> FALSE,   \* props
   inView |-> "off",
   onSplitReturn |-> "void",     \* what onSplit and onInView return
   onInViewReturn |-> "void",
   effects |-> <<>>,             \* closures of the initial-split effect:
                                 \* [isMounted, thenPending]
   effectUp |-> FALSE,           \* the effect is set up
   current |-> 0,                \* closure whose cleanup is registered, or 0
   hasSplitRef |-> FALSE,
   hasRevertedRef |-> FALSE,
   revertFnRef |-> FALSE,        \* holds result.dispose
   splitResultRef |-> FALSE,     \* holds the handle
   observerRef |-> FALSE,        \* holds a connected IntersectionObserver
   hasTriggeredOnceRef |-> FALSE,
   isInView |-> FALSE,
   splitSignal |-> "none",       \* the promise of onSplit awaited for the
                                 \* revert: "none", "pending" or its outcome
   splitOwner |-> 0,             \* closure that awaits it
   inViewSignals |-> 0,          \* pending promises of onInView awaited
   warned |-> FALSE,             \* console.warn of the wrapper
   setups |-> 0,                 \* history, read by the properties only
   splits |-> 0,
   intersections |-> 0,
   onInViewCalls |-> 0,
   onLeaveViewCalls |-> 0,
   inViewFulfilled |-> 0,
   revertedBy |-> "none",
   unmounted |-> FALSE,          \* the component has been unmounted
   effectInView |-> FALSE,       \* isInView at the last run of its effect
   lateReverts |-> 0,            \* history: calls of revert() after unmount
   result |-> [tag |-> "void", members |-> <<>>],
                                 \* a value handed to normalizeToPromise
   signal |-> [kind |-> "unset", parts |-> <<>>],
                                 \* what normalizeToPromise returned for it
   promises |-> <<>>,            \* states of the promises the signal is made of
   signalState |-> "none"]       \* state of the returned promise

\* the stepwise pipeline run before its first step
PipeInit ==
  [pos |-> 1,               \* next statement of PipelineSteps
   log |-> <<>>,            \* steps executed
   measuredWords |-> <<>>,
   marginLeft |-> 0,        \* style.marginLeft of the character spans
   compensated |-> FALSE,
   lineGroups |-> <<>>,
   mutations |-> 0,         \* mutations of the target's subtree so far
   fontSize |-> 16,         \* computed font size of the target, in pixels
   wordTops |-> <<>>,       \* rect.top of the word spans read by step 5, in
                            \* tenths of a pixel
   currentGaps |-> <<>>,    \* per word, the gaps between its character spans
                            \* read by step 4, in thousandths of a pixel
   margins |-> <<>>]        \* per word and gap, style.marginLeft of the second
                            \* span: <<>> when unset, else <<thousandths>>

NoTimer == [pending |-> FALSE, remaining |-> 0]

\* the visible state of the lifecycle controller
LifecycleState ==
  IF isDisposed THEN "Disposed"
  ELSE IF rafPending THEN "Resplitting"
  ELSE IF debounceTimer.pending THEN "Debouncing"
  ELSE IF observed # {} THEN "Observing"
  ELSE "Idle"

HistInit ==
  [notifs |-> 0,          \* resize notifications delivered
   reported |-> 0,        \* width reported by the last notification
   sinceLast |-> DebounceMs, \* time since the last width-changing notification
   bursts |-> 0,          \* bursts of width-changing notifications
   burstLen |-> 0,        \* notifications of the current burst
   resplits |-> 0,        \* resize-triggered pipeline runs
   timerFires |-> 0,      \* debounce windows that elapsed
   staleAborts |-> 0,     \* of which on a detached target
   revertCalls |-> 0,
   disposeCalls |-> 0,
   disconnects |-> 0,     \* calls of observer.disconnect()
   disposedIn |-> "none", \* lifecycle state at the first teardown
   initWidth |-> 0,
   resizeArg |-> EmptyCollections] \* argument of the last onResize

InitCore(D, T) ==
  /\ doc \in D
  /\ type \in T
  /\ autoSplit \in BOOLEAN
  /\ isElement \in BOOLEAN
  /\ hasParent \in BOOLEAN
  /\ width \in Widths
  /\ attached = hasParent
  /\ html = RawHtml(doc)
  /\ ariaLabel = <<>>
  /\ fontVariantLigatures = "normal"
  /\ warnings = {}
  /\ pc = "idle"
  /\ originalHTML = RawHtml(<<>>)
  /\ handle = InertHandle
  /\ isDisposed = FALSE
  /\ observed = {}
  /\ skipFirst = TRUE
  /\ lastWidth = 0
  /\ debounceTimer = NoTimer
  /\ rafPending = FALSE
  /\ calls = [onSplit |-> 0, onResize |-> 0]
  /\ hist = [HistInit EXCEPT !.initWidth = width]

InitWith(D, T) ==
  /\ InitCore(D, T)
  /\ wrapper = WrapperInit
  /\ pipe = PipeInit

\* ------------------------------------------------------------------------
\* dispose(): the part of a teardown that acts on the controller
\* ------------------------------------------------------------------------
\* the observer exists once observation has started
HasObserver == pc = "split" /\ autoSplit /\ hasParent

Teardown(h) ==
  IF isDisposed \/ pc # "split"
    THEN /\ UNCHANGED <<isDisposed, observed, debounceTimer>>
         /\ hist' = h
    ELSE /\ isDisposed' = TRUE
         /\ observed' = IF HasObserver THEN disconnect(observed) ELSE observed
         /\ debounceTimer' = NoTimer
         /\ hist' = [h EXCEPT !.disconnects = IF HasObserver THEN @ + 1 ELSE @,
                              !.disposedIn = LifecycleState]

\* ------------------------------------------------------------------------
\* Actions
\* ------------------------------------------------------------------------
\* one call of the core function (splitTxt is the name the wrapper imports
\* splitText under) on the target as it is
splitTxt ==
  IF ~IsHTMLElement(isElement)
    THEN /\ pc' = "threw"
         /\ UNCHANGED <<html, ariaLabel, fontVariantLigatures, warnings,
                        originalHTML, handle, observed>>
    ELSE IF IsBlank(TextContent(html))
      THEN /\ pc' = "inert"
           /\ warnings' = warnings \cup {"no text content"}
           /\ handle' = InertHandle
           /\ UNCHANGED <<html, ariaLabel, fontVariantLigatures, originalHTML,
                          observed>>
      ELSE /\ pc' = "split"
           /\ originalHTML' = html
           /\ ariaLabel' = <<TextContent(html)>>
           /\ html' = PipelineHtml(html, width, type)
           /\ fontVariantLigatures' = disableLigatures(type, fontVariantLigatures)
           /\ handle' = CoreHandle(PipelineCollections(html, width, type))
           /\ warnings' = warnings \cup WarnMissingParent(autoSplit, hasParent)
           /\ observed' = IF autoSplit /\ hasParent
                            THEN observe(observed, ObservationTarget)
                            ELSE observed

\* splitText(element, options), called once on the untouched target by the
\* wrapper's initial-split effect, which then invokes onSplit with the handle
splitText ==
  /\ pc = "idle"
  /\ splitTxt
  /\ calls' = IF pc' = "threw" THEN calls ELSE InvokeOnSplit(calls)
  /\ UNCHANGED <<inputs, width, attached, isDisposed, skipFirst, lastWidth,
                 debounceTimer, rafPending, hist, wrapper, pipe>>

\* variants: no baseline; no comparison with the last observed width
ResizeDecision_NoBaseline(skip, last, w) ==
  IF ~skip /\ w = last THEN "ignore" ELSE "debounce"
ResizeDecision_NoCompare(skip, last, w) ==
  IF skip THEN "baseline" ELSE "debounce"
\* what the observer callback does with a notification reporting width w
ResizeDecision(skip, last, w) ==
  IF skip THEN "baseline"
  ELSE IF w = last THEN "ignore"
  ELSE "debounce"

\* variant: the timer callback does not look at the target
IsStale_Never(connected) == FALSE
\* the target has been detached since observation began
IsStale(connected) == ~connected

\* the scheduled re-split finds the controller disposed
RafAborts(disposed) == disposed

\* the resize observer delivers a notification reporting width w
ResizeNotify(w) ==
  /\ pc = "split"
  /\ ObservationTarget \in observed
  /\ hist.notifs < MaxNotifs
  /\ width' = w
  /\ LET changed == hist.notifs > 0 /\ w # hist.reported
         newBurst == changed /\ hist.sinceLast >= DebounceMs
         h == [hist EXCEPT !.notifs = @ + 1,
                           !.reported = w,
                           !.sinceLast = IF changed THEN 0 ELSE @,
                           !.bursts = IF newBurst THEN @ + 1 ELSE @,
                           !.burstLen = IF newBurst THEN 1
                                        ELSE IF changed THEN @ + 1 ELSE @]
     IN /\ hist' = h
        /\ LET d == ResizeDecision(skipFirst, lastWidth, w)
           IN IF d = "baseline"
                THEN /\ skipFirst' = FALSE
                     /\ lastWidth' = w
                     /\ UNCHANGED debounceTimer
                ELSE IF d = "ignore"
                  THEN UNCHANGED <<skipFirst, lastWidth, debounceTimer>>
                  ELSE /\ lastWidth' = w
                       /\ debounceTimer' = [pending |-> TRUE, remaining |-> DebounceMs]
                       /\ UNCHANGED skipFirst
  /\ UNCHANGED <<inputs, attached, html, ariaLabel, fontVariantLigatures,
                 warnings, pc, originalHTML, handle, isDisposed, observed,
                 rafPending, calls, wrapper, pipe>>

\* the debounce timer's callback
TimerFired(h, autoDispose) ==
  IF IsStale(attached)
    THEN /\ UNCHANGED rafPending
         /\ IF autoDispose
              THEN /\ isDisposed' = TRUE
                   /\ observed' = disconnect(observed)
                   /\ hist' = [h EXCEPT !.timerFires = @ + 1, !.staleAborts = @ + 1,
                                        !.disconnects = @ + 1,
                                        !.disposedIn = "Debouncing"]
              ELSE /\ UNCHANGED <<isDisposed, observed>>
                   /\ hist' = [h EXCEPT !.timerFires = @ + 1, !.staleAborts = @ + 1]
    ELSE /\ rafPending' = TRUE
         /\ UNCHANGED <<isDisposed, observed>>
         /\ hist' = [h EXCEPT !.timerFires = @ + 1]

\* time advances by TickMs; a debounce timer that becomes due fires at once
\* (timers run when the clock reaches them, before any later notification),
\* and the rendering opportunity of a scheduled re-split comes before the
\* next tick
AdvanceTimers ==
  /\ pc = "split"
  /\ ~rafPending
  /\ debounceTimer.pending \/ hist.sinceLast < DebounceMs
  /\ LET h == [hist EXCEPT !.sinceLast = Min2(DebounceMs, @ + TickMs)]
         left == Max2(0, debounceTimer.remaining - TickMs)
     IN IF debounceTimer.pending /\ left = 0
          THEN /\ debounceTimer' = NoTimer
               /\ \E autoDispose \in BOOLEAN : TimerFired(h, autoDispose)
          ELSE /\ debounceTimer' = IF debounceTimer.pending
                                     THEN [debounceTimer EXCEPT !.remaining = left]
                                     ELSE debounceTimer
               /\ hist' = h
               /\ UNCHANGED <<isDisposed, observed, rafPending>>
  /\ UNCHANGED <<inputs, width, attached, html, ariaLabel,
                 fontVariantLigatures, warnings, pc, originalHTML, handle,
                 skipFirst, lastWidth, calls, wrapper, pipe>>

\* the next rendering opportunity: the scheduled re-split runs
AnimationFrame ==
  /\ rafPending
  /\ rafPending' = FALSE
  /\ IF RafAborts(isDisposed)
       THEN UNCHANGED <<html, fontVariantLigatures, handle, calls, hist>>
       ELSE LET c == PipelineCollections(originalHTML, width, type)
            IN /\ html' = PipelineHtml(originalHTML, width, type)
               /\ fontVariantLigatures' =
                    disableLigatures(type, fontVariantLigatures)
               /\ handle' = WrapperOnResize(handle, c)
               /\ calls' = InvokeOnResize(calls)
               /\ hist' = [hist EXCEPT !.resplits = @ + 1, !.resizeArg = c]
  /\ UNCHANGED <<inputs, width, attached, ariaLabel, warnings, pc, originalHTML,
                 isDisposed, observed, skipFirst, lastWidth, debounceTimer,
                 wrapper, pipe>>

\* one call of the handle's dispose()
ResultDispose == Teardown([hist EXCEPT !.disposeCalls = @ + 1])

\* the caller calls handle.dispose()
Dispose ==
  /\ pc \in {"split", "inert"}
  /\ hist.disposeCalls < MaxCalls
  /\ ResultDispose
  /\ UNCHANGED <<inputs, width, attached, html, ariaLabel, fontVariantLigatures,
                 warnings, pc, originalHTML, handle, skipFirst, lastWidth,
                 rafPending, calls, wrapper, pipe>>

\* one call of the handle's revert(); the target's style is not touched
ResultRevert ==
  IF handle.revert = "core"
    THEN /\ html' = revert(originalHTML)
         /\ ariaLabel' = <<>>
         /\ Teardown([hist EXCEPT !.revertCalls = @ + 1])
    ELSE /\ hist' = [hist EXCEPT !.revertCalls = @ + 1]
         /\ UNCHANGED <<html, ariaLabel, isDisposed, observed, debounceTimer>>

\* the caller calls handle.revert()
Revert ==
  /\ pc \in {"split", "inert"}
  /\ hist.revertCalls < MaxCalls
  /\ ResultRevert
  /\ UNCHANGED <<inputs, width, attached, fontVariantLigatures, warnings, pc,
                 originalHTML, handle, skipFirst, lastWidth, rafPending, calls,
                 wrapper, pipe>>

\* the target is removed from the document
Detach ==
  /\ pc = "split"
  /\ attached
  /\ ~isDisposed
  /\ attached' = FALSE
  /\ UNCHANGED <<inputs, width, html, ariaLabel, fontVariantLigatures,
                 warnings, pc, originalHTML, handle, isDisposed, observed,
                 skipFirst, lastWidth, debounceTimer, rafPending, calls, hist,
                 wrapper, pipe>>

\* ------------------------------------------------------------------------
\* splitText, statement by statement
\* ------------------------------------------------------------------------
\* variant: the lines are detected before the kerning compensation
PipelineSteps_ClusterFirst ==
  <<"snapshot", "measure", "clear", "build", "cluster", "compensate", "rewrap">>
\* the statements of splitText in program order
PipelineSteps ==
  <<"snapshot", "measure", "clear", "build", "compensate", "cluster", "rewrap">>

\* the statement at the current position
AtStep(name) == pipe.pos <= Len(PipelineSteps) /\ PipelineSteps[pipe.pos] = name
Advance(p, name) == [p EXCEPT !.pos = @ + 1, !.log = Append(@, name)]

\* gap between two characters of a word in the running text, and between
\* their spans with the given margin
OriginalGapPx == CharPx
SpanGapPx(marginLeft) == CharPx + SpanDriftPx + marginLeft
\* width of a word span whose character spans have the given margin
WordSpanPx(w, marginLeft) ==
  CharPx + (Len(w.chars) - 1) * SpanGapPx(marginLeft)

\* greedy placement of the word spans as they are rendered with the given
\* margin; the result is the top coordinate of every word span
RECURSIVE SpanLayoutFrom(_, _, _, _, _, _)
SpanLayoutFrom(words, marginLeft, i, x, line, w) ==
  IF i > Len(words) THEN <<>>
  ELSE LET px == WordSpanPx(words[i], marginLeft)
           sep == IF i = 1 \/ words[i].noSpaceBefore THEN 0 ELSE CharPx
           fits == x = 0 \/ x + sep + px <= w
           ln == IF fits THEN line ELSE line + 1
           nx == IF fits THEN x + sep + px ELSE px
       IN <<ln * LineHeightPx>> \o SpanLayoutFrom(words, marginLeft, i + 1, nx, ln, w)

SpanLayoutTops(words, marginLeft, w) == SpanLayoutFrom(words, marginLeft, 1, 0, 0, w)

\* the variables no step of the pipeline touches
pipeFrame == <<inputs, width, attached, fontVariantLigatures, warnings,
               isDisposed, observed, skipFirst, lastWidth, debounceTimer,
               rafPending, calls, hist, wrapper>>

\* const originalHTML = element.innerHTML; the aria-label
SnapshotStep ==
  /\ AtStep("snapshot")
  /\ originalHTML' = html
  /\ ariaLabel' = <<TextContent(html)>>
  /\ pipe' = Advance(pipe, "snapshot")
  /\ UNCHANGED <<pipeFrame, html, pc, handle>>

\* step 1: measure the text nodes the target holds now
MeasureStep ==
  /\ AtStep("measure")
  /\ pipe' = [Advance(pipe, "measure") EXCEPT
                !.measuredWords = measureOriginalText(TextNodesOf(html))]
  /\ UNCHANGED <<pipeFrame, html, ariaLabel, originalHTML, pc, handle>>

\* element.textContent = ""
ClearStep ==
  /\ AtStep("clear")
  /\ html' = RawHtml(<<>>)
  /\ pipe' = [Advance(pipe, "clear") EXCEPT !.mutations = @ + 1]
  /\ UNCHANGED <<pipeFrame, ariaLabel, originalHTML, pc, handle>>

\* steps 2 and 3: word and character spans, appended with spaces
BuildStep ==
  /\ AtStep("build")
  /\ html' = BuildHtml(pipe.measuredWords, <<>>, {"chars", "words"})
  /\ pipe' = [Advance(pipe, "build") EXCEPT !.mutations = @ + 1, !.marginLeft = 0]
  /\ UNCHANGED <<pipeFrame, ariaLabel, originalHTML, pc, handle>>

\* step 4: the margin that brings the gaps of the spans in the document
\* back to the measured gaps
CompensateStep ==
  /\ AtStep("compensate")
  /\ LET delta == OriginalGapPx - SpanGapPx(pipe.marginLeft)
     IN pipe' = [Advance(pipe, "compensate") EXCEPT
                   !.marginLeft = IF html.kind = "split" /\ Abs(delta) < KerningLimit
                                    THEN delta ELSE @,
                   !.compensated = TRUE,
                   !.mutations = @ + 1]
  /\ UNCHANGED <<pipeFrame, html, ariaLabel, originalHTML, pc, handle>>

\* Math.round(delta * 100) / 100 on a delta given in thousandths of a pixel
\* (a half goes up)
RoundDelta(delta) == ((delta + 5) \div 10) * 10

\* variant: every delta is applied, however large
KerningMargin_NoLimit(originalGap, currentGap) ==
  <<RoundDelta(originalGap - currentGap)>>
\* the margin step 4 gives the second span of a pair, from the gap measured
\* in the original text and the gap of the spans (thousandths of a pixel)
KerningMargin(originalGap, currentGap) ==
  LET delta == originalGap - currentGap
  IN IF Abs(delta) < KerningLimit * 1000 THEN <<RoundDelta(delta)>> ELSE <<>>

\* the gaps a host may report between the character spans of the words
RECURSIVE GapChoices(_, _)
GapChoices(words, values) ==
  IF words = <<>> THEN {<<>>}
  ELSE {<<g>> \o rest : g \in [1..(Len(Head(words).chars) - 1) -> values],
                        rest \in GapChoices(Tail(words), values)}

\* step 4 on character spans the host has placed with the given gaps
CompensateStepAt(gaps) ==
  /\ AtStep("compensate")
  /\ pipe' = [Advance(pipe, "compensate") EXCEPT
                !.currentGaps = gaps,
                !.margins = [w \in 1..Len(gaps) |->
                               [i \in 1..Len(gaps[w]) |->
                                  KerningMargin(OriginalGapPx * 1000, gaps[w][i])]],
                !.compensated = TRUE,
                !.mutations = @ + 1]
  /\ UNCHANGED <<pipeFrame, html, ariaLabel, originalHTML, pc, handle>>

\* step 5: line detection on the word spans as they are rendered now
ClusterStep ==
  /\ AtStep("cluster")
  /\ pipe' = [Advance(pipe, "cluster") EXCEPT
                !.lineGroups =
                   DetectLines(SpanLayoutTops(pipe.measuredWords, pipe.marginLeft, width))]
  /\ UNCHANGED <<pipeFrame, html, ariaLabel, originalHTML, pc, handle>>

\* step 5 on word spans the host has placed at the given tops (tenths of a
\* pixel)
ClusterStepAt(tops) ==
  /\ AtStep("cluster")
  /\ pipe' = [Advance(pipe, "cluster") EXCEPT
                !.wordTops = tops,
                !.lineGroups = DetectLines(RoundedTops(tops))]
  /\ UNCHANGED <<pipeFrame, html, ariaLabel, originalHTML, pc, handle>>

\* step 6: the word spans wrapped in line spans; the result
RewrapStep ==
  /\ AtStep("rewrap")
  /\ html' = BuildHtml(pipe.measuredWords, pipe.lineGroups, Tiers)
  /\ handle' = CoreHandle(Collections(pipe.measuredWords, pipe.lineGroups, Tiers))
  /\ pc' = "split"
  /\ pipe' = [Advance(pipe, "rewrap") EXCEPT !.mutations = @ + 1]
  /\ UNCHANGED <<pipeFrame, ariaLabel, originalHTML>>

\* ------------------------------------------------------------------------
\* React wrapper (SplitTxt)
\* ------------------------------------------------------------------------
\* normalizeToPromise: "promise" when a promise is obtained from the
\* callback's return value, "null" otherwise
normalizeToPromise(result) ==
  IF result \in {"void", "falsy"} THEN "null"
  ELSE IF result = "animations" THEN "promise"
  ELSE IF result = "animation" THEN "promise"
  ELSE IF result = "promise" THEN "promise"
  ELSE "null"

\* a value a callback may hand back, as normalizeToPromise sees it: its
\* kind and, for an array, the kinds of its members (an animation, or an
\* object without finished)
MemberKinds == {"animation", "object"}
CallbackValues ==
  {[tag |-> t, members |-> <<>>] :
     t \in {"void", "falsy", "other", "promise", "animation"}}
  \cup {[tag |-> "animations", members |-> m] :
          m \in UNION {[1..n -> MemberKinds] : n \in 0..MaxMembers}}

\* variant: fulfilled as soon as one member is
PromiseAll_Any(states) ==
  IF \E i \in 1..Len(states) : states[i] = "fulfilled" THEN "fulfilled"
  ELSE IF \A i \in 1..Len(states) : states[i] = "rejected" THEN "rejected"
  ELSE "pending"
\* the state of Promise.all(promises) from the states of the promises
PromiseAll(states) ==
  IF \E i \in 1..Len(states) : states[i] = "rejected" THEN "rejected"
  ELSE IF \A i \in 1..Len(states) : states[i] = "fulfilled" THEN "fulfilled"
  ELSE "pending"

\* the promise normalizeToPromise returns: none ("null"), one of the
\* value's own promises ("same"), or Promise.all of the members' promises
\* ("all"); a part is the promise itself ("self", of the value 0), a
\* finished property, or Promise.resolve of a member
NoSignal == [kind |-> "null", parts |-> <<>>]
NormalizedSignal(result) ==
  IF normalizeToPromise(result.tag) = "null" THEN NoSignal
  ELSE IF result.tag = "animations"
    THEN [kind |-> "all",
          parts |-> [i \in 1..Len(result.members) |->
                       [of |-> i,
                        prop |-> IF result.members[i] = "animation"
                                   THEN "finished" ELSE "resolve"]]]
    ELSE IF result.tag = "animation"
      THEN [kind |-> "same", parts |-> <<[of |-> 0, prop |-> "finished"]>>]
      ELSE [kind |-> "same", parts |-> <<[of |-> 0, prop |-> "self"]>>]

\* the state of the returned promise
SignalState(signal, states) ==
  IF signal.kind = "null" THEN "none"
  ELSE IF signal.kind = "same" THEN states[1]
  ELSE PromiseAll(states)

\* the variables the wrapper's bookkeeping of promises leaves alone
wrapperFrame == <<inputs, width, attached, html, ariaLabel, fontVariantLigatures,
                  warnings, pc, originalHTML, handle, isDisposed, observed,
                  skipFirst, lastWidth, debounceTimer, rafPending, calls, hist,
                  pipe>>

\* normalizeToPromise is called on the value a callback returned
NormalizeReturn ==
  /\ wrapper.signal.kind = "unset"
  /\ LET sig == NormalizedSignal(wrapper.result)
         st == [i \in 1..Len(sig.parts) |->
                  IF sig.parts[i].prop = "resolve" THEN "fulfilled" ELSE "pending"]
     IN wrapper' = [wrapper EXCEPT !.signal = sig,
                                   !.promises = st,
                                   !.signalState = SignalState(sig, st)]
  /\ UNCHANGED wrapperFrame

\* one of the promises the returned promise is made of settles
PromiseSettles(i, outcome) ==
  /\ wrapper.signal.kind # "unset"
  /\ wrapper.promises[i] = "pending"
  /\ LET st == [wrapper.promises EXCEPT ![i] = outcome]
     IN wrapper' = [wrapper EXCEPT !.promises = st,
                                   !.signalState = SignalState(wrapper.signal, st)]
  /\ UNCHANGED wrapperFrame

\* variant: the continuation splits whatever the closure's state
MaySplit_Always(isMounted, hasSplit) == TRUE
\* the continuation of document.fonts.ready goes on to split
MaySplit(isMounted, hasSplit) == ~(~isMounted \/ hasSplit)

\* variant: the return value of onSplit is awaited with inView enabled too
RevertsAfterOnSplit_IgnoreInView(inView, revertOnComplete) == revertOnComplete
\* the return value of onSplit is looked at for the revert
RevertsAfterOnSplit(inView, revertOnComplete) == inView = "off" /\ revertOnComplete

\* variant: the continuations do not look at hasRevertedRef
AlreadyReverted_Never(hasReverted) == FALSE
\* hasRevertedRef.current, as the continuations of the promises read it
AlreadyReverted(hasReverted) == hasReverted

\* setup of the initial-split effect
EffectSetup ==
  /\ ~wrapper.effectUp
  /\ ~wrapper.unmounted
  /\ wrapper.setups < MaxSetups
  /\ wrapper' =
       IF wrapper.hasSplitRef
         THEN [wrapper EXCEPT !.effectUp = TRUE, !.current = 0, !.setups = @ + 1]
         ELSE [wrapper EXCEPT !.effectUp = TRUE,
                              !.current = Len(wrapper.effects) + 1,
                              !.setups = @ + 1,
                              !.effects = Append(@, [isMounted |-> TRUE,
                                                     thenPending |-> TRUE])]
  /\ UNCHANGED <<inputs, width, attached, html, ariaLabel, fontVariantLigatures,
                 warnings, pc, originalHTML, handle, isDisposed, observed,
                 skipFirst, lastWidth, debounceTimer, rafPending, calls, hist,
                 pipe>>

\* variant: the cleanup leaves the handle alone
CleanupDisposes_Never(revertFn) == FALSE
\* if (revertFnRef.current) revertFnRef.current()
CleanupDisposes(revertFn) == revertFn

\* the cleanup function of the initial-split effect, when its setup
\* returned one; unmounting: the component goes away with it
RunCleanup(unmounting) ==
  /\ IF wrapper.current = 0
       THEN /\ wrapper' = [wrapper EXCEPT !.effectUp = FALSE,
                                          !.unmounted = unmounting]
            /\ UNCHANGED <<isDisposed, observed, debounceTimer, hist>>
       ELSE /\ wrapper' = [wrapper EXCEPT !.effectUp = FALSE,
                                          !.unmounted = unmounting,
                                          !.effects[wrapper.current].isMounted = FALSE,
                                          !.observerRef = FALSE]
            /\ IF CleanupDisposes(wrapper.revertFnRef)
                 THEN ResultDispose
                 ELSE UNCHANGED <<isDisposed, observed, debounceTimer, hist>>
  /\ UNCHANGED <<inputs, width, attached, html, ariaLabel, fontVariantLigatures,
                 warnings, pc, originalHTML, handle, skipFirst, lastWidth,
                 rafPending, calls, pipe>>

\* cleanup of the initial-split effect before it is set up again
EffectCleanup ==
  /\ wrapper.effectUp
  /\ RunCleanup(FALSE)

\* the component unmounts: the cleanup runs and no effect runs any more
Unmount ==
  /\ wrapper.effectUp
  /\ RunCleanup(TRUE)

\* the continuation of document.fonts.ready registered by closure k
FontsReady(k) ==
  /\ wrapper.effects[k].thenPending
  /\ IF MaySplit(wrapper.effects[k].isMounted, wrapper.hasSplitRef)
       THEN /\ splitTxt
            /\ calls' = InvokeOnSplit(calls)
            /\ LET looks == RevertsAfterOnSplit(wrapper.inView, wrapper.revertOnComplete)
                   awaits == looks /\ normalizeToPromise(wrapper.onSplitReturn) = "promise"
               IN wrapper' =
                    [wrapper EXCEPT
                       !.effects[k].thenPending = FALSE,
                       !.revertFnRef = TRUE,
                       !.hasSplitRef = TRUE,
                       !.splitResultRef = TRUE,
                       !.splits = @ + 1,
                       !.splitSignal = IF awaits THEN "pending" ELSE @,
                       !.splitOwner = IF awaits THEN k ELSE @,
                       !.warned = IF looks /\ ~awaits /\ wrapper.onSplitReturn # "void"
                                    THEN TRUE ELSE @,
                       !.observerRef = IF wrapper.inView # "off" THEN TRUE ELSE @]
       ELSE /\ wrapper' = [wrapper EXCEPT !.effects[k].thenPending = FALSE]
            /\ UNCHANGED <<html, ariaLabel, fontVariantLigatures, warnings, pc,
                           originalHTML, handle, observed, calls>>
  /\ UNCHANGED <<inputs, width, attached, isDisposed, skipFirst, lastWidth,
                 debounceTimer, rafPending, hist, pipe>>

\* the promise obtained from onSplit settles; its continuation runs when
\* it is fulfilled
SplitSignalSettles(outcome) ==
  /\ wrapper.splitSignal = "pending"
  /\ IF /\ outcome = "fulfilled"
        /\ ~(~wrapper.effects[wrapper.splitOwner].isMounted
               \/ AlreadyReverted(wrapper.hasRevertedRef))
       THEN /\ ResultRevert
            /\ wrapper' = [wrapper EXCEPT !.splitSignal = outcome,
                                          !.hasRevertedRef = TRUE,
                                          !.revertedBy = "onSplit",
                                          !.lateReverts =
                                             IF wrapper.unmounted THEN @ + 1 ELSE @]
       ELSE /\ wrapper' = [wrapper EXCEPT !.splitSignal = outcome]
            /\ UNCHANGED <<html, ariaLabel, isDisposed, observed, debounceTimer,
                           hist>>
  /\ UNCHANGED <<inputs, width, attached, fontVariantLigatures, warnings, pc,
                 originalHTML, handle, skipFirst, lastWidth, rafPending, calls,
                 pipe>>

\* variant: the callback does not look at the once option
ObservedInView_IgnoreOnce(isIntersecting, isOnce, hasTriggeredOnce, isInView) ==
  isIntersecting
\* the value of isInView after the observer's callback
ObservedInView(isIntersecting, isOnce, hasTriggeredOnce, isInView) ==
  IF isIntersecting
    THEN (IF isOnce /\ hasTriggeredOnce THEN isInView ELSE TRUE)
    ELSE (IF isOnce THEN isInView ELSE FALSE)

\* the intersection observer reports the container entering or leaving the
\* viewport
Intersect(isIntersecting) ==
  /\ wrapper.observerRef
  /\ wrapper.intersections < MaxIntersections
  /\ LET isOnce == wrapper.inView = "once"
         ignored == isIntersecting /\ isOnce /\ wrapper.hasTriggeredOnceRef
     IN wrapper' =
          [wrapper EXCEPT
             !.intersections = @ + 1,
             !.hasTriggeredOnceRef = IF isIntersecting /\ ~ignored THEN TRUE ELSE @,
             !.isInView = ObservedInView(isIntersecting, isOnce,
                                         wrapper.hasTriggeredOnceRef, @)]
  /\ UNCHANGED <<inputs, width, attached, html, ariaLabel, fontVariantLigatures,
                 warnings, pc, originalHTML, handle, isDisposed, observed,
                 skipFirst, lastWidth, debounceTimer, rafPending, calls, hist,
                 pipe>>

\* the isInView effect, run after a render in which isInView has changed
InViewEffect ==
  /\ ~wrapper.unmounted
  /\ wrapper.isInView # wrapper.effectInView
  /\ LET runs == wrapper.splitResultRef /\ ~wrapper.hasRevertedRef
         awaits == /\ runs
                   /\ wrapper.isInView
                   /\ wrapper.revertOnComplete
                   /\ normalizeToPromise(wrapper.onInViewReturn) = "promise"
     IN wrapper' =
          [wrapper EXCEPT
             !.effectInView = wrapper.isInView,
             !.onInViewCalls = IF runs /\ wrapper.isInView THEN @ + 1 ELSE @,
             !.onLeaveViewCalls = IF runs /\ ~wrapper.isInView THEN @ + 1 ELSE @,
             !.inViewSignals = IF awaits THEN @ + 1 ELSE @]
  /\ UNCHANGED <<inputs, width, attached, html, ariaLabel, fontVariantLigatures,
                 warnings, pc, originalHTML, handle, isDisposed, observed,
                 skipFirst, lastWidth, debounceTimer, rafPending, calls, hist,
                 pipe>>

\* a promise obtained from onInView settles; its continuation runs when it
\* is fulfilled
InViewSignalSettles(outcome) ==
  /\ wrapper.inViewSignals > 0
  /\ IF outcome = "fulfilled" /\ ~AlreadyReverted(wrapper.hasRevertedRef)
       THEN /\ ResultRevert
            /\ wrapper' = [wrapper EXCEPT !.inViewSignals = @ - 1,
                                          !.inViewFulfilled = @ + 1,
                                          !.hasRevertedRef = TRUE,
                                          !.revertedBy = "onInView",
                                          !.lateReverts =
                                             IF wrapper.unmounted THEN @ + 1 ELSE @]
       ELSE /\ wrapper' = [wrapper EXCEPT
                             !.inViewSignals = @ - 1,
                             !.inViewFulfilled =
                                IF outcome = "fulfilled" THEN @ + 1 ELSE @]
            /\ UNCHANGED <<html, ariaLabel, isDisposed, observed, debounceTimer,
                           hist>>
  /\ UNCHANGED <<inputs, width, attached, fontVariantLigatures, warnings, pc,
                 originalHTML, handle, skipFirst, lastWidth, rafPending, calls,
                 pipe>>

\* ------------------------------------------------------------------------
\* Specifications
\* ------------------------------------------------------------------------
\* the documents and configurations of the lifecycle specification
LifeDocs ==
  {MakeDoc(<<>>, 0), MakeDoc(<<" ">>, 0), MakeDoc(<<"a", " ", "a">>, 0),
   MakeDoc(<<"a", "em", "a">>, 1)}
LifeTypes == {Tiers, {"lines"}, {"chars", "words"}}

Init == InitWith(LifeDocs, LifeTypes)

Next ==
  \/ splitText
  \/ \E w \in Widths : ResizeNotify(w)
  \/ AdvanceTimers
  \/ AnimationFrame
  \/ Dispose
  \/ Revert
  \/ Detach

Spec == Init /\ [][Next]_vars

\* the split / revert round trip over every document and configuration
InitRoundTrip == InitWith(Docs, Types) /\ ~autoSplit

NextRoundTrip ==
  \/ splitText
  \/ Dispose
  \/ Revert

SpecRoundTrip == InitRoundTrip /\ [][NextRoundTrip]_vars

\* the wrapper around one child element: every combination of its props
\* and of the values its callbacks return
WrapperDocs == {MakeDoc(<<" ">>, 0), MakeDoc(<<"a", " ", "a">>, 1)}

InitWrapper ==
  /\ InitCore(WrapperDocs, {Tiers})
  /\ isElement
  /\ hasParent
  /\ width = CharPx
  /\ wrapper \in {[WrapperInit EXCEPT !.revertOnComplete = p[1],
                                      !.inView = p[2],
                                      !.onSplitReturn = p[3],
                                      !.onInViewReturn = p[4]] :
                    p \in BOOLEAN \X InViewOptions \X CallbackReturns \X CallbackReturns}
  /\ pipe = PipeInit

NextWrapper ==
  \/ EffectSetup
  \/ EffectCleanup
  \/ Unmount
  \/ \E k \in 1..Len(wrapper.effects) : FontsReady(k)
  \/ \E outcome \in Outcomes : SplitSignalSettles(outcome)
  \/ \E isIntersecting \in BOOLEAN : Intersect(isIntersecting)
  \/ InViewEffect
  \/ \E outcome \in Outcomes : InViewSignalSettles(outcome)

SpecWrapper == InitWrapper /\ [][NextWrapper]_vars

\* the wrapper around a child whose parent is resized: autoSplit on or off,
\* with or without the viewport observer
InitUnmount ==
  /\ InitCore({MakeDoc(<<"a", " ", "a">>, 1)}, {Tiers})
  /\ isElement
  /\ hasParent
  /\ width = CharPx
  /\ wrapper \in {[WrapperInit EXCEPT !.inView = v] : v \in {"off", "on"}}
  /\ pipe = PipeInit

NextUnmount ==
  \/ EffectSetup
  \/ EffectCleanup
  \/ Unmount
  \/ \E k \in 1..Len(wrapper.effects) : FontsReady(k)
  \/ \E w \in Widths : ResizeNotify(w)
  \/ AdvanceTimers
  \/ AnimationFrame

SpecUnmount == InitUnmount /\ [][NextUnmount]_vars

\* normalizeToPromise on every value a callback may return, and the
\* promises it is made of settling in any order
InitNormalize ==
  /\ InitCore({MakeDoc(<<"a">>, 0)}, {Tiers})
  /\ isElement
  /\ hasParent
  /\ ~autoSplit
  /\ width = CharPx
  /\ wrapper \in {[WrapperInit EXCEPT !.result = v] : v \in CallbackValues}
  /\ pipe = PipeInit

NextNormalize ==
  \/ NormalizeReturn
  \/ \E i \in 1..Len(wrapper.promises) : \E outcome \in Outcomes :
        PromiseSettles(i, outcome)

SpecNormalize == InitNormalize /\ [][NextNormalize]_vars

\* one run of splitText, statement by statement, over every document and
\* parent width
InitPipeline ==
  /\ InitWith(Docs, {Tiers})
  /\ isElement
  /\ ~autoSplit

NextPipeline ==
  \/ SnapshotStep
  \/ MeasureStep
  \/ ClearStep
  \/ BuildStep
  \/ CompensateStep
  \/ ClusterStep
  \/ RewrapStep

SpecPipeline == InitPipeline /\ [][NextPipeline]_vars

\* a text of n one-letter words
WordsText(n) == [i \in 1..(2 * n - 1) |-> IF i % 2 = 1 THEN "a" ELSE " "]
\* rect.top values of a word span, in tenths of a pixel, and font sizes of
\* the target, in pixels
TopValues == {0, 30, 46, 60, 200, 300}
FontSizes == {16, 96}

\* one run of splitText, statement by statement, on a host that places the
\* word spans at any of the tops
InitCluster ==
  /\ InitCore({MakeDoc(WordsText(n), 0) : n \in 1..MaxWords}, {Tiers})
  /\ isElement
  /\ hasParent
  /\ ~autoSplit
  /\ width = CharPx
  /\ wrapper = WrapperInit
  /\ pipe \in {[PipeInit EXCEPT !.fontSize = f] : f \in FontSizes}

NextCluster ==
  \/ SnapshotStep
  \/ MeasureStep
  \/ ClearStep
  \/ BuildStep
  \/ CompensateStep
  \/ \E tops \in [1..Len(pipe.measuredWords) -> TopValues] : ClusterStepAt(tops)
  \/ RewrapStep

SpecCluster == InitCluster /\ [][NextCluster]_vars

\* texts whose words have up to two character pairs, and the gaps a host
\* may report between two character spans, in thousandths of a pixel
KerningTexts ==
  {<<"a", "a", "a", " ", "a", "a">>, <<"a", "em", "a", "a">>, <<"a", " ", "a">>}
CurrentGaps == {10000, 12000, 11234, 29999, 30000, -10000}
TwoTops == {0, 200}

\* one run of splitText, statement by statement, on a host that places the
\* character spans with any of the gaps
InitKerning ==
  /\ InitCore({MakeDoc(t, 0) : t \in KerningTexts}, {Tiers})
  /\ isElement
  /\ hasParent
  /\ ~autoSplit
  /\ width = CharPx
  /\ wrapper = WrapperInit
  /\ pipe = PipeInit

NextKerning ==
  \/ SnapshotStep
  \/ MeasureStep
  \/ ClearStep
  \/ BuildStep
  \/ \E gaps \in GapChoices(pipe.measuredWords, CurrentGaps) : CompensateStepAt(gaps)
  \/ \E tops \in [1..Len(pipe.measuredWords) -> TwoTops] : ClusterStepAt(tops)
  \/ RewrapStep

SpecKerning == InitKerning /\ [][NextKerning]_vars

\* ------------------------------------------------------------------------
\* Properties
\* ------------------------------------------------------------------------
\* the word wrappers of the rendered hierarchy, in document order
RenderedWords(h) ==
  LET items == Concat(h.rows)
      RECURSIVE Pick(_)
      Pick(j) == IF j > Len(items) THEN <<>>
                 ELSE (IF items[j].k = "word" THEN <<items[j].chars>> ELSE <<>>)
                      \o Pick(j + 1)
  IN Pick(1)

\* a teardown call has been made on the handle of a completed split
TornDown == pc = "split" /\ (hist.disposeCalls >= 1 \/ hist.revertCalls >= 1)

\* C1: revert() after splitText leaves the target's inner markup identical
\* to the markup it had immediately before the split, for every text and
\* every split configuration.
C1_RoundTrip == hist.revertCalls >= 1 => html = RawHtml(doc)

C1_Witness ==
  /\ pc = "split"
  /\ hist.revertCalls >= 1
  /\ Len(doc) = 2
  /\ Len(measureOriginalText(TextNodesOf(RawHtml(doc)))) >= 2
  /\ type = {"chars", "lines"}

\* C2: once dispose() or revert() has been called the controller is
\* disposed for good: the debounce timer is cancelled and never pending
\* again, no re-split is performed and onResize is not invoked any more,
\* whatever was pending at the time of the call.
C2_DisposedTerminal ==
  /\ [](TornDown => (isDisposed /\ ~debounceTimer.pending))
  /\ [][isDisposed => /\ isDisposed'
                      /\ ~debounceTimer'.pending
                      /\ hist'.resplits = hist.resplits
                      /\ calls'.onResize = calls.onResize
                      /\ (html' = html \/ hist'.revertCalls > hist.revertCalls)]_vars

C2_Witness ==
  /\ isDisposed
  /\ hist.disposedIn = "Resplitting"
  /\ hist.disposeCalls >= 1
  /\ ~rafPending
  /\ hist.resplits = 0

\* C3: a burst of width-changing notifications, each less than the debounce
\* interval after the previous one, yields exactly one re-split and one
\* onResize invocation, scheduled no earlier than the debounce interval
\* after the last notification of the burst.
C3_Accounting ==
  (pc = "split" /\ ~isDisposed /\ attached) =>
     hist.bursts = hist.resplits + (IF debounceTimer.pending THEN 1 ELSE 0)
                                 + (IF rafPending THEN 1 ELSE 0)

C4_BaselineSuppression ==
  hist.notifs <= 1 =>
    /\ ~debounceTimer.pending
    /\ ~rafPending
    /\ hist.resplits = 0
    /\ calls.onResize = 0

C4_Witness ==
  /\ hist.notifs = 1
  /\ hist.reported # hist.initWidth
  /\ hist.sinceLast >= DebounceMs
  /\ ~isDisposed

\* C5: a notification after the baseline that reports the width of the
\* previous notification changes nothing: no window is started or extended;
\* and while no notification has reported a changed width there is no
\* re-split and no onResize invocation.
C5_SameWidthIgnored ==
  /\ [][(hist'.notifs = hist.notifs + 1 /\ hist.notifs >= 1 /\ width' = hist.reported)
          => /\ UNCHANGED <<debounceTimer, rafPending, calls, html>>
             /\ hist'.resplits = hist.resplits]_vars
  /\ [](hist.bursts = 0 =>
          /\ ~debounceTimer.pending
          /\ ~rafPending
          /\ hist.resplits = 0
          /\ calls.onResize = 0)

C5_Witness ==
  /\ hist.notifs >= 3
  /\ hist.bursts = 0
  /\ ~isDisposed

\* C6: when the debounce window elapses on a target that is no longer
\* attached, nothing is scheduled, onResize is not invoked and the target's
\* content is not mutated.
C6_StaleAbort ==
  [][(hist'.timerFires # hist.timerFires /\ ~attached)
       => /\ ~rafPending'
          /\ html' = html
          /\ ariaLabel' = ariaLabel
          /\ calls' = calls
          /\ hist'.resplits = hist.resplits]_vars

C6_Witness ==
  /\ hist.staleAborts >= 1
  /\ hist.resplits = 0
  /\ html # RawHtml(doc)

\* C7: after any number of resize-triggered re-splits, revert() restores
\* the markup the target had before the very first split and leaves the
\* lifecycle Disposed.
C7_RevertAfterResplits ==
  (pc = "split" /\ hist.revertCalls >= 1 /\ hist.resplits >= 1) =>
    /\ html = RawHtml(doc)
    /\ LifecycleState = "Disposed"
    /\ observed = {}
    /\ ~debounceTimer.pending

C7_Witness ==
  /\ hist.revertCalls >= 1
  /\ hist.resplits >= 2
  /\ hist.disposeCalls = 0

\* C8: the first teardown call (dispose() or revert()) disconnects the
\* observation; a second dispose() or a second revert() changes nothing,
\* and the observer is disconnected at most once.
C8_IdempotentTeardown ==
  /\ [](TornDown => observed = {})
  /\ [](hist.disconnects <= 1)
  /\ [][(\/ hist'.disposeCalls > hist.disposeCalls /\ hist.disposeCalls >= 1
         \/ hist'.revertCalls > hist.revertCalls /\ hist.revertCalls >= 1)
          => /\ UNCHANGED <<html, ariaLabel, pc, handle, isDisposed, observed,
                            debounceTimer, rafPending, calls, warnings>>
             /\ hist'.disconnects = hist.disconnects]_vars

C8_Witness ==
  /\ autoSplit
  /\ hasParent
  /\ pc = "split"
  /\ hist.revertCalls = 2
  /\ hist.disposeCalls = 2
  /\ hist.disconnects = 1

\* C9: a resize-triggered re-split invokes onResize exactly once, with the
\* collections of the hierarchy it has just built, and does not invoke
\* onSplit; onSplit is invoked for the initial split only.
C9_OnResizeOnly ==
  /\ [](calls.onSplit <= 1)
  /\ [][calls'.onSplit # calls.onSplit => (pc = "idle" /\ pc' # "idle")]_vars
  /\ [][hist'.resplits # hist.resplits =>
          /\ calls'.onResize = calls.onResize + 1
          /\ calls'.onSplit = calls.onSplit
          /\ hist'.resizeArg.chars =
               (IF "chars" \in type THEN Concat(RenderedWords(html')) ELSE <<>>)
          /\ hist'.resizeArg.words =
               (IF "words" \in type THEN RenderedWords(html') ELSE <<>>)
          /\ Len(hist'.resizeArg.lines) =
               (IF "lines" \in type THEN Len(html'.rows) ELSE 0)
          /\ handle'.chars = hist'.resizeArg.chars
          /\ handle'.words = hist'.resizeArg.words
          /\ handle'.lines = hist'.resizeArg.lines]_vars

C9_Witness ==
  /\ hist.resplits >= 1
  /\ calls.onSplit = 1
  /\ calls.onResize >= 1
  /\ Len(hist.resizeArg.lines) = 2

\* C10: after a split the parent is observed exactly when autoSplit is set
\* and the target has a parent; nothing but the parent is ever observed, and
\* without autoSplit nothing is observed, so that no notification, window,
\* re-split or onResize invocation occurs.
C10_ObservedIffAutoSplit ==
  /\ (pc = "split" /\ ~isDisposed) =>
        (observed = {ObservationTarget} <=> (autoSplit /\ hasParent))
  /\ observed \subseteq {"parent"}
  /\ (~autoSplit \/ ~hasParent) =>
        /\ observed = {}
        /\ hist.notifs = 0
        /\ ~debounceTimer.pending
        /\ ~rafPending
        /\ hist.resplits = 0
        /\ calls.onResize = 0

C10_Witness ==
  /\ pc = "split"
  /\ autoSplit
  /\ hasParent
  /\ observed = {"parent"}
  /\ hist.resplits >= 1

\* the text of the target before the split
OriginalText == TextContent(RawHtml(doc))

\* C11: with autoSplit set on a target without parent element, splitText
\* warns, does not throw, completes the initial split and returns the
\* collections of the requested tiers; nothing is observed and no re-split
\* ever happens. The warning is emitted in that case only.
C11_MissingObservationTarget ==
  /\ (autoSplit /\ ~hasParent /\ isElement /\ pc # "idle"
        /\ (\E i \in 1..Len(OriginalText) : OriginalText[i] \notin WhitespaceChars))
       => pc = "split"
  /\ (autoSplit /\ ~hasParent /\ pc = "split") =>
       /\ "autoSplit requires a parent element" \in warnings
       /\ handle.revert = "core"
       /\ \A t \in type : handle[t] # <<>>
       /\ (hist.revertCalls = 0 => html.kind = "split")
       /\ calls.onSplit = 1
       /\ observed = {}
       /\ hist.notifs = 0
       /\ ~debounceTimer.pending
       /\ ~rafPending
       /\ hist.resplits = 0
       /\ calls.onResize = 0
  /\ ("autoSplit requires a parent element" \in warnings) => (autoSplit /\ ~hasParent)

C11_Witness ==
  /\ autoSplit
  /\ ~hasParent
  /\ pc = "split"
  /\ "autoSplit requires a parent element" \in warnings
  /\ Len(handle.lines) = 2
  /\ hist.revertCalls = 0
  /\ hist.disposeCalls = 1

StripWhitespace(text) == SelectSeq(text, LAMBDA c : c \notin WhitespaceChars)

\* C15: the characters of the produced units, concatenated in document
\* order, are the non-whitespace characters of the original text in their
\* original order: nothing is dropped, duplicated or reordered, break
\* characters and texts spread over several text nodes included.
C15_ContentConservation ==
  (pc = "split" /\ hist.revertCalls = 0) =>
    /\ Concat(RenderedWords(html)) = StripWhitespace(OriginalText)
    /\ StripWhitespace(TextContent(html)) = StripWhitespace(OriginalText)
    /\ ("chars" \in type => handle.chars = StripWhitespace(OriginalText))
    /\ ("words" \in type => Concat(handle.words) = StripWhitespace(OriginalText))

C15_Witness ==
  /\ pc = "split"
  /\ hist.revertCalls = 0
  /\ Len(doc) = 2
  /\ Len(OriginalText) = 3
  /\ \E i \in 1..3 : OriginalText[i] \in BREAK_CHARS
  /\ \E i \in 1..3 : OriginalText[i] \in WhitespaceChars
  /\ type = {"chars", "words"}

FontsSettled == \A k \in 1..Len(wrapper.effects) : ~wrapper.effects[k].thenPending

\* C17: whatever the sequence of setups and cleanups of the initial-split
\* effect, the wrapper calls the core split at most once and invokes onSplit
\* once per split; once the effect is set up and the registered
\* continuations have run, both have happened exactly once.
C17_SingleInitialization ==
  /\ wrapper.splits <= 1
  /\ calls.onSplit = wrapper.splits
  /\ (wrapper.effectUp /\ FontsSettled) => (wrapper.splits = 1 /\ calls.onSplit = 1)

C17_Witness ==
  /\ wrapper.setups = 2
  /\ Len(wrapper.effects) = 2
  /\ ~wrapper.effects[1].isMounted
  /\ wrapper.effectUp
  /\ FontsSettled
  /\ wrapper.splits = 1
  /\ calls.onSplit = 1
  /\ pc = "split"

\* C18 as stated: with revertOnComplete enabled, once the promise obtained
\* from the callback's return value has settled, the original content is
\* restored by the revert() it triggered; revert() is invoked at most once.
C18_Original ==
  /\ hist.revertCalls <= 1
  /\ (wrapper.revertOnComplete /\ wrapper.splitSignal \in Outcomes) =>
        (html = RawHtml(doc) /\ ariaLabel = <<>>)

\* C18 (amended): with revertOnComplete enabled, when the promise obtained
\* from the callback's return value is fulfilled (for the promise of onSplit:
\* while the effect that made the split is still set up), revert() is
\* invoked and the original content is restored; a promise that is rejected,
\* or the promise of onSplit fulfilled after the effect's cleanup, triggers
\* no revert; revert() is invoked at most once however many promises settle.
C18_AutoRevert ==
  /\ [](hist.revertCalls <= 1)
  /\ [][(/\ wrapper.splitSignal = "pending"
         /\ wrapper'.splitSignal = "fulfilled"
         /\ wrapper.effects[wrapper.splitOwner].isMounted)
          => /\ hist'.revertCalls = 1
             /\ html' = RawHtml(doc)
             /\ ariaLabel' = <<>>]_vars
  /\ [][wrapper'.inViewFulfilled > wrapper.inViewFulfilled
          => /\ hist'.revertCalls = 1
             /\ html' = RawHtml(doc)
             /\ ariaLabel' = <<>>]_vars
  /\ [][(/\ wrapper.splitSignal = "pending"
         /\ wrapper'.splitSignal \in Outcomes
         /\ (\/ wrapper'.splitSignal = "rejected"
             \/ ~wrapper.effects[wrapper.splitOwner].isMounted))
          => /\ hist'.revertCalls = hist.revertCalls
             /\ html' = html]_vars
  /\ [][(/\ wrapper'.inViewSignals < wrapper.inViewSignals
         /\ wrapper'.inViewFulfilled = wrapper.inViewFulfilled)
          => /\ hist'.revertCalls = hist.revertCalls
             /\ html' = html]_vars

C18_Witness ==
  /\ wrapper.revertOnComplete
  /\ wrapper.onSplitReturn = "animation"
  /\ wrapper.splitSignal = "fulfilled"
  /\ pc = "split"
  /\ hist.revertCalls = 1
  /\ html = RawHtml(doc)

\* C19: with revertOnComplete and inView both enabled, the value returned
\* by onSplit is never awaited and never triggers a revert; a revert happens
\* only in the step in which a promise returned by onInView is fulfilled.
C19_InViewDefersRevert ==
  /\ []((wrapper.revertOnComplete /\ wrapper.inView # "off") =>
          /\ wrapper.splitSignal = "none"
          /\ wrapper.revertedBy # "onSplit"
          /\ (hist.revertCalls >= 1 =>
                (wrapper.onInViewCalls >= 1 /\ wrapper.inViewFulfilled >= 1)))
  /\ [][(/\ wrapper.revertOnComplete
         /\ wrapper.inView # "off"
         /\ hist'.revertCalls > hist.revertCalls)
          => wrapper'.inViewFulfilled = wrapper.inViewFulfilled + 1]_vars

C19_Witness ==
  /\ wrapper.revertOnComplete
  /\ wrapper.inView = "on"
  /\ wrapper.onSplitReturn = "promise"
  /\ wrapper.onInViewReturn = "animation"
  /\ pc = "split"
  /\ hist.revertCalls = 1
  /\ wrapper.revertedBy = "onInView"
  /\ html = RawHtml(doc)

\* the pipeline executes the given step
Did(name) == pipe'.log = Append(pipe.log, name)
\* s is an initial part of t
IsPrefix(s, t) == Len(s) <= Len(t) /\ SubSeq(t, 1, Len(s)) = s

\* C20: a pipeline run executes measure, clear, build, compensate, cluster
\* and re-wrap in this order, each once; the measurement reads the target
\* before any mutation of its subtree, the line clustering reads the word
\* geometry with the kerning compensation applied, and the run then yields
\* the lines of the text as it was laid out before the split.
C20_PipelineOrder ==
  /\ [](IsPrefix(SelectSeq(pipe.log, LAMBDA x : x # "snapshot"),
                 <<"measure", "clear", "build", "compensate", "cluster", "rewrap">>))
  /\ [][Did("measure") => (pipe.mutations = 0 /\ html = RawHtml(doc))]_vars
  /\ [][Did("cluster") => (pipe.compensated /\ "compensate" \in {pipe.log[i] : i \in 1..Len(pipe.log)})]_vars
  /\ [](pc = "split" =>
          /\ Len(pipe.log) = 7
          /\ html = PipelineHtml(RawHtml(doc), width, Tiers)
          /\ pipe.lineGroups =
               DetectLines(LayoutTops(measureOriginalText(TextNodesOf(RawHtml(doc))), width))
          /\ Concat(RenderedWords(html)) = StripWhitespace(OriginalText))

C20_Witness ==
  /\ pc = "split"
  /\ Len(pipe.log) = 7
  /\ pipe.marginLeft # 0
  /\ Len(pipe.measuredWords) = 2
  /\ Len(pipe.lineGroups) = 1
  /\ Len(DetectLines(SpanLayoutTops(pipe.measuredWords, 0, width))) = 2

\* the tolerance of the line detection the plan prescribes, in tenths of a
\* pixel, for a font size in pixels: Math.max(5, fontSize * 0.3)
AdaptiveTolerance(fontSize) == Max2(50, 3 * fontSize)

\* step 5 has run on tops reported by the host
Clustered == "cluster" \in {pipe.log[i] : i \in 1..Len(pipe.log)}

\* C21: the line-clustering tolerance is max(5, fontSize * 0.3) of the
\* active font size: the second word of a text joins the line of the first
\* exactly when their rounded tops differ by less than that tolerance (at
\* font size 96: tops 20 apart make one line, tops 30 apart make two).
C21_AdaptiveTolerance ==
  (Clustered /\ Len(pipe.wordTops) >= 2) =>
    LET d == Abs(RoundTop(pipe.wordTops[2]) - RoundTop(pipe.wordTops[1]))
    IN (Len(pipe.lineGroups[1]) >= 2) <=> (10 * d < AdaptiveTolerance(pipe.fontSize))

C21_Witness ==
  /\ pc = "split"
  /\ pipe.fontSize = 96
  /\ pipe.wordTops = <<0, 200>>
  /\ pipe.lineGroups = <<<<1>>, <<2>>>>

\* C26: line clustering cuts the word sequence into non-empty runs of
\* consecutive words in original order; a word joins the current line
\* exactly when its rounded top differs by less than the tolerance from the
\* rounded top of the first word of that line, and starts a new line
\* otherwise, however small the steps from word to word are.
C26_LineClustering ==
  Clustered =>
    LET y == RoundedTops(pipe.wordTops)
        g == pipe.lineGroups
    IN /\ Concat(g) = [i \in 1..Len(pipe.measuredWords) |-> i]
       /\ Len(y) = Len(pipe.measuredWords)
       /\ \A l \in 1..Len(g) :
            /\ g[l] # <<>>
            /\ \A k \in 2..Len(g[l]) : Abs(y[g[l][k]] - y[g[l][1]]) < LineTolerance
            /\ l > 1 => Abs(y[g[l][1]] - y[g[l - 1][1]]) >= LineTolerance

C26_Witness ==
  /\ pc = "split"
  /\ pipe.wordTops = <<0, 30, 60>>
  /\ pipe.lineGroups = <<<<1, 2>>, <<3>>>>
  /\ Len(html.rows) = 2

\* step 4 has run on gaps reported by the host
Compensated == "compensate" \in {pipe.log[i] : i \in 1..Len(pipe.log)}
\* the delta of a pair: original gap minus current gap, in thousandths
PairDelta(w, i) == OriginalGapPx * 1000 - pipe.currentGaps[w][i]
\* the pairs of character spans of the measured words
CharPairs ==
  {p \in (1..Len(pipe.measuredWords)) \X (1..Len(OriginalText)) :
     p[2] < Len(pipe.measuredWords[p[1]].chars)}
Anomalous(p) == Abs(PairDelta(p[1], p[2])) >= KerningLimit * 1000

\* C22 as stated: a pair whose delta has magnitude 20 or more receives no
\* offset, every other pair receives an offset equal to its own delta, and
\* the split completes.
C22_Original ==
  Compensated =>
    /\ \A p \in CharPairs :
         pipe.margins[p[1]][p[2]] =
           (IF Anomalous(p) THEN <<>> ELSE <<PairDelta(p[1], p[2])>>)
    /\ pc = "split" => Concat(RenderedWords(html)) = StripWhitespace(OriginalText)

\* C22 (amended): a pair whose delta has magnitude 20 or more receives no
\* offset; every other pair, in the same word and in other words, receives
\* an offset equal to its own delta rounded to two decimal places; every
\* pair of character spans is decided, and the split completes with every
\* word rendered.
C22_MeasurementAnomaly ==
  Compensated =>
    /\ Len(pipe.margins) = Len(pipe.measuredWords)
    /\ \A w \in 1..Len(pipe.margins) :
         Len(pipe.margins[w]) = Len(pipe.measuredWords[w].chars) - 1
    /\ \A p \in CharPairs :
         LET delta == PairDelta(p[1], p[2])
             m == pipe.margins[p[1]][p[2]]
         IN IF Anomalous(p)
              THEN m = <<>>
              ELSE /\ Len(m) = 1
                   /\ m[1] % 10 = 0
                   /\ m[1] - 5 <= delta
                   /\ delta < m[1] + 5
    /\ pc = "split" => Concat(RenderedWords(html)) = StripWhitespace(OriginalText)

C22_Witness ==
  /\ pc = "split"
  /\ Len(pipe.measuredWords) = 2
  /\ pipe.currentGaps = <<<<30000, 11234>>, <<12000>>>>
  /\ pipe.margins = <<<<<<>>, <<-1230>>>>, <<<<-2000>>>>>>
  /\ Len(RenderedWords(html)) = 2

\* step 1 has run
Measured == "measure" \in {pipe.log[i] : i \in 1..Len(pipe.log)}
\* the positions of the units (non-whitespace characters) in a text
UnitPositions(text) ==
  SelectSeq([i \in 1..Len(text) |-> i], LAMBDA i : text[i] \notin WhitespaceChars)
\* the number of the first unit of the k-th word
RECURSIVE WordStart(_, _)
WordStart(words, k) ==
  IF k = 1 THEN 1 ELSE WordStart(words, k - 1) + Len(words[k - 1].chars)

\* C24: a break character is the last unit of the word it closes, and a
\* word is flagged noSpaceBefore exactly when the character immediately
\* before its first unit in the text is a break character; a word that
\* follows 'dash, whitespace' is not flagged.
C24_BreakCharacter ==
  Measured =>
    LET words == pipe.measuredWords
        pos == UnitPositions(OriginalText)
    IN /\ \A k \in 1..Len(words) : \A i \in 1..(Len(words[k].chars) - 1) :
            words[k].chars[i] \notin BREAK_CHARS
       /\ \A k \in 1..Len(words) :
            LET p == pos[WordStart(words, k)]
            IN words[k].noSpaceBefore <=> (p > 1 /\ OriginalText[p - 1] \in BREAK_CHARS)

C24_Witness ==
  /\ pc = "split"
  /\ OriginalText = <<"em", " ", "a">>
  /\ Len(pipe.measuredWords) = 2
  /\ pipe.measuredWords[2].noSpaceBefore
  /\ TextContent(html) = <<"em", "a">>

\* the positions of the word wrappers among the children of a container
WordPositions(row) ==
  SelectSeq([j \in 1..Len(row) |-> j], LAMBDA j : row[j].k = "word")
\* the children of a container are the given words in order, one literal
\* space between two of them unless the second is flagged, none before the
\* first or after the last
SeparatedBy(row, words) ==
  LET wp == WordPositions(row)
  IN /\ Len(wp) = Len(words)
     /\ \A j \in 1..Len(row) : row[j].k # "word" => row[j] = SpaceItem
     /\ \A k \in 1..Len(wp) : row[wp[k]].chars = words[k].chars
     /\ Len(wp) > 0 => (wp[1] = 1 /\ wp[Len(wp)] = Len(row))
     /\ \A k \in 2..Len(wp) :
          wp[k] - wp[k - 1] = (IF words[k].noSpaceBefore THEN 1 ELSE 2)

\* C25: in the flat word sequence built by step 3 and in every line
\* container built by step 6, two consecutive words of a container are
\* separated by exactly one literal space unless the second is flagged
\* noSpaceBefore, in which case nothing separates them; no separator
\* precedes the first or follows the last word of a container.
C25_SeparatorInterleaving ==
  html.kind = "split" =>
    LET words == pipe.measuredWords
        containers == IF html.wrapLines THEN pipe.lineGroups ELSE <<AllIdx(words)>>
    IN /\ Len(html.rows) = Len(containers)
       /\ \A r \in 1..Len(containers) :
            SeparatedBy(html.rows[r],
                        [k \in 1..Len(containers[r]) |-> words[containers[r][k]]])

C25_Witness ==
  /\ pc = "split"
  /\ html.wrapLines
  /\ Len(html.rows) = 1
  /\ Len(html.rows[1]) = 2
  /\ Len(pipe.measuredWords) = 2
  /\ pipe.measuredWords[2].noSpaceBefore

\* C28: with the once option, onInView is invoked at most once and
\* onLeaveView never, whatever the intersection notifications; without it,
\* onLeaveView is invoked only when the in-view state the effect last saw
\* was true and is now false, hence never before the container has first
\* entered the viewport.
C28_ViewportTrigger ==
  /\ [](wrapper.inView = "once" =>
          (wrapper.onInViewCalls <= 1 /\ wrapper.onLeaveViewCalls = 0))
  /\ [](wrapper.onLeaveViewCalls > 0 =>
          (wrapper.hasTriggeredOnceRef /\ wrapper.inView = "on"))
  /\ [][wrapper'.onLeaveViewCalls # wrapper.onLeaveViewCalls =>
          /\ wrapper'.onLeaveViewCalls = wrapper.onLeaveViewCalls + 1
          /\ wrapper.effectInView
          /\ ~wrapper'.effectInView
          /\ ~wrapper'.isInView
          /\ wrapper'.onInViewCalls = wrapper.onInViewCalls]_vars
  /\ [][wrapper'.onInViewCalls # wrapper.onInViewCalls =>
          /\ wrapper'.onInViewCalls = wrapper.onInViewCalls + 1
          /\ ~wrapper.effectInView
          /\ wrapper'.effectInView]_vars

C28_Witness ==
  /\ wrapper.inView = "once"
  /\ wrapper.intersections = 3
  /\ wrapper.onInViewCalls = 1
  /\ wrapper.onLeaveViewCalls = 0
  /\ wrapper.isInView
  /\ wrapper.effectInView
  /\ ~wrapper.unmounted

\* the closures of the initial-split effect whose build is in flight: the
\* continuation is still to run and will go on to split
LiveBuilds ==
  {k \in 1..Len(wrapper.effects) :
     /\ wrapper.effects[k].thenPending
     /\ wrapper.effects[k].isMounted
     /\ ~wrapper.hasSplitRef}

C30_NoRevertAfterUnmount == wrapper.lateReverts = 0

C30_Witness ==
  /\ wrapper.unmounted
  /\ wrapper.lateReverts = 1
  /\ wrapper.revertedBy = "onInView"
  /\ hist.revertCalls = 1
  /\ pc = "split"

\* C23: once the wrapper has unmounted after a completed split, the
\* viewport observer is disconnected and dispose() has been called on the
\* handle: nothing is observed, no debounce timer is pending, and from then
\* on no re-split runs and onResize is not invoked.
C23_WrapperUnmount ==
  /\ []((wrapper.unmounted /\ wrapper.splits >= 1) =>
          /\ ~wrapper.observerRef
          /\ hist.disposeCalls >= 1
          /\ isDisposed
          /\ observed = {}
          /\ ~debounceTimer.pending)
  /\ [][(wrapper'.unmounted /\ ~wrapper.unmounted /\ wrapper.current # 0
           /\ wrapper.revertFnRef)
          => hist'.disposeCalls = hist.disposeCalls + 1]_vars
  /\ [][wrapper.unmounted =>
          /\ calls' = calls
          /\ hist'.resplits = hist.resplits
          /\ html' = html
          /\ ~debounceTimer'.pending
          /\ ~wrapper'.observerRef]_vars

C23_Witness ==
  /\ wrapper.unmounted
  /\ autoSplit
  /\ wrapper.inView = "on"
  /\ wrapper.setups = 1
  /\ hist.disposedIn = "Debouncing"
  /\ calls.onResize = 1
  /\ hist.notifs >= 3
  /\ observed = {}

\* C27: normalization yields no completion signal or exactly one: none for
\* a void or falsy value and for a value that is neither an animation nor
\* a promise; the promise itself for a promise; the finished promise for
\* an animation; for an array one promise over its members' promises that
\* is fulfilled exactly when every one of them is.
C27_Normalization ==
  wrapper.signal.kind # "unset" =>
    LET r == wrapper.result
        sig == wrapper.signal
    IN /\ sig.kind \in {"null", "same", "all"}
       /\ (sig.kind = "null") <=> (r.tag \in {"void", "falsy", "other"})
       /\ sig.kind = "null" =>
            (sig.parts = <<>> /\ wrapper.promises = <<>> /\ wrapper.signalState = "none")
       /\ r.tag = "promise" =>
            /\ sig.kind = "same"
            /\ sig.parts = <<[of |-> 0, prop |-> "self"]>>
            /\ wrapper.signalState = wrapper.promises[1]
       /\ r.tag = "animation" =>
            /\ sig.kind = "same"
            /\ sig.parts = <<[of |-> 0, prop |-> "finished"]>>
            /\ wrapper.signalState = wrapper.promises[1]
       /\ r.tag = "animations" =>
            /\ sig.kind = "all"
            /\ Len(sig.parts) = Len(r.members)
            /\ Len(wrapper.promises) = Len(r.members)
            /\ \A i \in 1..Len(r.members) :
                 /\ sig.parts[i].of = i
                 /\ r.members[i] = "animation" => sig.parts[i].prop = "finished"
            /\ (wrapper.signalState = "fulfilled") <=>
                 (\A i \in 1..Len(r.members) : wrapper.promises[i] = "fulfilled")

C27_Witness ==
  /\ wrapper.result.tag = "animations"
  /\ wrapper.result.members = <<"animation", "object", "animation">>
  /\ wrapper.promises = <<"fulfilled", "fulfilled", "pending">>
  /\ wrapper.signal.kind = "all"
  /\ wrapper.signalState = "pending"

====
